---- MODULE Spec2Model ----
(***************************************************************************)
(* azul-express (index.js): transactions bound to an Express request.      *)
(*                                                                         *)
(* One request/response pair travels through a pipeline of layers          *)
(* (transaction middleware, wrapped routes, rollback middleware).  The     *)
(* state is what index.js keeps on req/res and in the closures of          *)
(* setupResponse and route, plus the observable logs a test would spy on   *)
(* (statements handed to the engine, original response operations          *)
(* invoked, calls of the outer continuations).                             *)
(*                                                                         *)
(* JavaScript runs every callback to completion: the synchronous body of   *)
(* an entry point is one action, and so is each promise reaction.  The     *)
(* reactions chained on one engine promise (.then(runPending).catch(next)) *)
(* run back to back when the engine settles and form one action.           *)
(***************************************************************************)
EXTENDS Integers, Sequences, FiniteSets, Bags, TLC

\* ------------------------------------------------------------------ bounds
MaxLayers == 2      \* layers invoked on the request
MaxCalls  == 2      \* calls of res.writeHead / res.write / res.end and of
                    \* wrapped continuations, together
MaxQueries == 2     \* queries a handler runs
MaxParams  == 6     \* parameters a handler given to ae.route declares
MaxRequests == 2    \* requests a route made by ae.route is invoked on
MaxModels  == 2     \* models the database defines
MaxBinds   == 2     \* models a handler asks one binder for

\* ------------------------------------------------------------------ values
None       == "none"          \* continuation called without argument
Err        == "err"           \* an Error instance raised by a handler
Val        == "value"         \* a truthy value that is not an Error
UsageError == "usageErr"      \* Error('Unexpected call to `next` with non-error.')
TypeError  == "typeErr"       \* reading .begin of an undefined transaction
BeginError == "beginErr"      \* the engine rejects BEGIN
CloseError == "closeErr"      \* the engine rejects COMMIT / ROLLBACK

Ops       == {"writeHead", "write", "end"}
\* the emission calls tried: every operation, two receivers, two arguments
Calls     == {[op |-> "writeHead", this |-> "res", args |-> "a"],
              [op |-> "write",     this |-> "alt", args |-> "b"],
              [op |-> "end",       this |-> "res", args |-> "a"]}

\* args[0] instanceof Error
IsError(x) == x \in {Err, UsageError, TypeError, BeginError, CloseError}

VARIABLES
  reqAzul,    \* req.azul: "absent" | "plain" (no transaction) | "txn"
  resAzul,    \* res.azul.commit installed and the emissions wrapped
  resNext,    \* the layer whose `next` setupResponse closed over (0: none)
  pending,    \* [defined, calls]: deferred emissions; undefined once drained
  promise,    \* [id, state, op]: the close promise of setupResponse
  first,      \* which of commit() / rollback() was called first
  ret,        \* id of the promise the last commit()/rollback() returned
  array,      \* runPending's copy of the queue it replays
  issued,     \* statements handed to the engine, in order
  executed,   \* statements the engine completed (adapter.executed)
  emitLog,    \* emission calls made on res, in order
  emitted,    \* invocations of the original writeHead/write/end, in order
  nextLog,    \* calls of wrapped continuations: a bag of [next, arg]
  nextCalls,  \* calls of outer continuations: a bag of [next, arg]
  thrown,     \* errors thrown synchronously: [at, err]
  waiters,    \* reactions waiting on a promise: a bag of [next, arg, on]
  layers,     \* the layers invoked so far: [kind, txn, st, beginFailed]
  made,       \* a call of ae.route(fn, options) and the calls of its result
  binder      \* one modelBinder: its cache `bound` and the calls of bind

\* what index.js keeps on req / res and the logs of one request
pipeline == <<reqAzul, resAzul, resNext, pending, promise, first, ret, array,
              issued, executed, emitLog, emitted, nextLog, nextCalls, thrown,
              waiters, layers>>
vars == <<pipeline, made, binder>>

\* The state as one record, so that the functions of index.js compose.
Cur ==
  [reqAzul |-> reqAzul, resAzul |-> resAzul, resNext |-> resNext,
   pending |-> pending, promise |-> promise, first |-> first,
   ret |-> ret, array |-> array, issued |-> issued, executed |-> executed,
   emitLog |-> emitLog, emitted |-> emitted, nextLog |-> nextLog,
   nextCalls |-> nextCalls, thrown |-> thrown, waiters |-> waiters,
   layers |-> layers]

Becomes(s) ==
  /\ reqAzul' = s.reqAzul /\ resAzul' = s.resAzul /\ resNext' = s.resNext
  /\ pending' = s.pending /\ promise' = s.promise /\ first' = s.first
  /\ ret' = s.ret /\ array' = s.array /\ issued' = s.issued
  /\ executed' = s.executed /\ emitLog' = s.emitLog /\ emitted' = s.emitted
  /\ nextLog' = s.nextLog /\ nextCalls' = s.nextCalls /\ thrown' = s.thrown
  /\ waiters' = s.waiters /\ layers' = s.layers
  /\ UNCHANGED <<made, binder>>

\* one more copy of x in the bag
Put(bag, x) == bag (+) SetToBag({x})

NoPromise == [id |-> 0, state |-> "undefined", op |-> "none"]

Count(seq, x) == Cardinality({k \in 1..Len(seq) : seq[k] = x})
Closes(seq)   == Count(seq, "COMMIT") + Count(seq, "ROLLBACK")

\* ------------------------------------------------------- index.js, 12..26
setupRequest(s, transaction) ==
  IF s.reqAzul # "absent" THEN s                     \* already set up
  ELSE [s EXCEPT !.reqAzul = IF transaction THEN "txn" ELSE "plain"]

\* setupResponse without the `if (res.azul && res.azul.commit)` return
setupResponse_Again(s, next) ==
  IF s.reqAzul # "txn" THEN s
  ELSE [s EXCEPT !.resAzul = TRUE,
                 !.resNext = next,
                 !.pending = [defined |-> TRUE, calls |-> <<>>],
                 !.promise = NoPromise]

\* setupResponse without the `if (!req.azul.transaction)` return
setupResponse_Unconditional(s, next) ==
  IF s.resAzul THEN s
  ELSE [s EXCEPT !.resAzul = TRUE,
                 !.resNext = next,
                 !.pending = [defined |-> TRUE, calls |-> <<>>],
                 !.promise = NoPromise]

\* ------------------------------------------------------- index.js, 36..83
\* pending = [], promise undefined, the three emissions wrapped, res.azul set
setupResponse(s, next) ==
  IF s.reqAzul # "txn" THEN s                        \* no setup required
  ELSE IF s.resAzul THEN s                           \* already set up
  ELSE [s EXCEPT !.resAzul = TRUE,
                 !.resNext = next,
                 !.pending = [defined |-> TRUE, calls |-> <<>>],
                 !.promise = NoPromise]

Reverse(seq) == [k \in 1..Len(seq) |-> seq[Len(seq) + 1 - k]]

\* runPending replaying the queue from its end
runPending_Reversed(s) ==
  [s EXCEPT !.array   = Reverse(s.pending.calls),
            !.pending = [defined |-> FALSE, calls |-> <<>>],
            !.emitted = s.emitted \o Reverse(s.pending.calls)]

\* index.js, 44..50: copy the queue, discard it, invoke every copy in order
runPending(s) ==
  [s EXCEPT !.array   = s.pending.calls,
            !.pending = [defined |-> FALSE, calls |-> <<>>],
            !.emitted = s.emitted \o s.pending.calls]

\* a call of commit() or rollback() is recorded: the first one by name
called(s, fn) == IF s.first = "none" THEN [s EXCEPT !.first = fn] ELSE s

\* commit without the `if (promise)` guard
commit_Unguarded(s) ==
  LET t == called(s, "commit") IN
  [t EXCEPT !.promise = [id |-> t.promise.id + 1, state |-> "pending",
                         op |-> "COMMIT"],
            !.issued  = Append(@, "COMMIT"),
            !.ret     = t.promise.id + 1]

\* index.js, 52..56
commit(s) ==
  LET t == called(s, "commit") IN
  IF t.promise.id # 0 THEN [t EXCEPT !.ret = t.promise.id]
  ELSE [t EXCEPT !.promise = [id |-> t.promise.id + 1, state |-> "pending",
                              op |-> "COMMIT"],
                 !.issued  = Append(@, "COMMIT"),
                 !.ret     = t.promise.id + 1]

\* rollback without the `if (promise)` guard
rollback_Unguarded(s) ==
  LET t == called(s, "rollback") IN
  [t EXCEPT !.promise = [id |-> t.promise.id + 1, state |-> "pending",
                         op |-> "ROLLBACK"],
            !.issued  = Append(@, "ROLLBACK"),
            !.ret     = t.promise.id + 1]

\* index.js, 58..62
rollback(s) ==
  LET t == called(s, "rollback") IN
  IF t.promise.id # 0 THEN [t EXCEPT !.ret = t.promise.id]
  ELSE [t EXCEPT !.promise = [id |-> t.promise.id + 1, state |-> "pending",
                              op |-> "ROLLBACK"],
                 !.issued  = Append(@, "ROLLBACK"),
                 !.ret     = t.promise.id + 1]

\* the wrapper queueing the call and invoking the original at once as well
triggerCommit_CallsThrough(s, call) ==
  IF s.pending.defined
  THEN commit([s EXCEPT !.pending.calls = Append(@, call),
                        !.emitted = Append(@, call)])
  ELSE [s EXCEPT !.emitted = Append(@, call)]

\* the wrapper queueing the call whether or not the queue was drained
triggerCommit_Requeues(s, call) ==
  commit([s EXCEPT !.pending.calls = Append(@, call)])

\* the wrapper closing the transaction with a rollback
triggerCommit_Rollback(s, call) ==
  IF s.pending.defined
  THEN rollback([s EXCEPT !.pending.calls = Append(@, call)])
  ELSE [s EXCEPT !.emitted = Append(@, call)]

\* index.js, 64..74: the wrapper installed over writeHead, write and end
triggerCommit(s, call) ==
  IF s.pending.defined
  THEN commit([s EXCEPT !.pending.calls = Append(@, call)])
  ELSE [s EXCEPT !.emitted = Append(@, call)]

\* res.writeHead / res.write / res.end as the handler finds them on res:
\* the wrapper when setupResponse installed it (76..78), else the original
emission(s, call) ==
  LET t == [s EXCEPT !.emitLog = Append(@, call)] IN
  IF t.resAzul THEN triggerCommit(t, call)
  ELSE [t EXCEPT !.emitted = Append(@, call)]

\* A reaction registered with .then on a promise: `on` is the id of the close
\* promise it waits for, 0 for BPromise.resolve()
wait(s, i, arg, on) ==
  [s EXCEPT !.waiters = Put(@, [next |-> i, arg |-> arg, on |-> on])]

\* wrapNext that starts the close and forwards without waiting for it
wrapNext_NoWait(s, i, arg) ==
  LET t == [s EXCEPT !.nextLog = Put(@, [next |-> i, arg |-> arg])] IN
  IF arg = None /\ t.resAzul
  THEN wait(commit(t), i, arg, 0)
  ELSE IF IsError(arg) /\ t.resAzul
  THEN wait(rollback(t), i, arg, 0)
  ELSE IF arg # None /\ ~IsError(arg)
  THEN [t EXCEPT !.thrown = Append(@, [at |-> i, err |-> UsageError])]
  ELSE wait(t, i, arg, 0)

\* wrapNext that only rolls back on errors and passes everything else on
wrapNext_PassThrough(s, i, arg) ==
  LET t == [s EXCEPT !.nextLog = Put(@, [next |-> i, arg |-> arg])] IN
  IF IsError(arg) /\ t.resAzul
  THEN LET u == rollback(t) IN wait(u, i, arg, u.ret)
  ELSE wait(t, i, arg, 0)

\* wrapNext that commits whatever it is called with
wrapNext_AlwaysCommits(s, i, arg) ==
  LET t == [s EXCEPT !.nextLog = Put(@, [next |-> i, arg |-> arg])] IN
  IF (arg = None \/ IsError(arg)) /\ t.resAzul
  THEN LET u == commit(t) IN wait(u, i, arg, u.ret)
  ELSE IF arg # None /\ ~IsError(arg)
  THEN [t EXCEPT !.thrown = Append(@, [at |-> i, err |-> UsageError])]
  ELSE wait(t, i, arg, 0)

\* ------------------------------------------------------ index.js, 95..110
\* the function wrapNext returns, called with `arg` by the handler of layer i
wrapNext(s, i, arg) ==
  LET t == [s EXCEPT !.nextLog = Put(@, [next |-> i, arg |-> arg])] IN
  IF arg = None /\ t.resAzul
  THEN LET u == commit(t) IN wait(u, i, arg, u.ret)
  ELSE IF IsError(arg) /\ t.resAzul
  THEN LET u == rollback(t) IN wait(u, i, arg, u.ret)
  ELSE IF arg # None /\ ~IsError(arg)
  THEN [t EXCEPT !.thrown = Append(@, [at |-> i, err |-> UsageError])]
  ELSE wait(t, i, arg, 0)

\* transaction middleware that calls its continuation without waiting
transactionMiddleware_Eager(s, i) ==
  LET a == setupRequest(s, TRUE)
      b == setupResponse(a, i)
      l == [kind |-> "transaction", txn |-> TRUE, st |-> "begin",
            beginFailed |-> FALSE]
  IN IF b.reqAzul # "txn"
     THEN [b EXCEPT !.layers = Append(@, [l EXCEPT !.st = "threw"]),
                    !.thrown = Append(@, [at |-> i, err |-> TypeError])]
     ELSE [b EXCEPT !.layers = Append(@, l),
                    !.issued = Append(@, "BEGIN"),
                    !.nextCalls = Put(@, [next |-> i, arg |-> None])]

\* ----------------------------------------------------- index.js, 118..124
transactionMiddleware(s, i) ==
  LET a == setupRequest(s, TRUE)
      b == setupResponse(a, i)
      l == [kind |-> "transaction", txn |-> TRUE, st |-> "begin",
            beginFailed |-> FALSE]
  IN IF b.reqAzul # "txn"        \* req.azul.transaction is undefined
     THEN [b EXCEPT !.layers = Append(@, [l EXCEPT !.st = "threw"]),
                    !.thrown = Append(@, [at |-> i, err |-> TypeError])]
     ELSE [b EXCEPT !.layers = Append(@, l),
                    !.issued = Append(@, "BEGIN")]

\* rollback middleware that calls the continuation without the error
rollbackMiddleware_DropsError(s, i, err) ==
  LET l == [kind |-> "rollback", txn |-> FALSE, st |-> "done",
            beginFailed |-> FALSE]
      t == [s EXCEPT !.layers = Append(@, l)]
      u == IF t.resAzul THEN rollback(t) ELSE t
  IN wait(u, i, None, IF t.resAzul THEN u.ret ELSE 0)

\* ----------------------------------------------------- index.js, 133..138
rollbackMiddleware(s, i, err) ==
  LET l == [kind |-> "rollback", txn |-> FALSE, st |-> "done",
            beginFailed |-> FALSE]
      t == [s EXCEPT !.layers = Append(@, l)]
      u == IF t.resAzul THEN rollback(t) ELSE t
  IN wait(u, i, err, IF t.resAzul THEN u.ret ELSE 0)

\* route that begins a transaction whenever its option asks for one
route_AlwaysBegins(s, i, transaction) ==
  LET a == setupRequest(s, transaction)
      b == setupResponse(a, i)
      l == [kind |-> "route", txn |-> transaction, st |-> "scheduled",
            beginFailed |-> FALSE]
  IN IF transaction
     THEN IF b.reqAzul # "txn"
          THEN [b EXCEPT !.layers = Append(@, [l EXCEPT !.st = "threw"]),
                         !.thrown = Append(@, [at |-> i, err |-> TypeError])]
          ELSE [b EXCEPT !.layers = Append(@, [l EXCEPT !.st = "begin"]),
                         !.issued = Append(@, "BEGIN")]
     ELSE [b EXCEPT !.layers = Append(@, l)]

\* route that chains the handler on a resolved promise instead of BEGIN
route_HandlerAtOnce(s, i, transaction) ==
  LET begun == s.reqAzul = "txn"
      a == setupRequest(s, transaction)
      b == setupResponse(a, i)
      l == [kind |-> "route", txn |-> transaction, st |-> "scheduled",
            beginFailed |-> FALSE]
  IN IF transaction /\ ~begun
     THEN IF b.reqAzul # "txn"
          THEN [b EXCEPT !.layers = Append(@, [l EXCEPT !.st = "threw"]),
                         !.thrown = Append(@, [at |-> i, err |-> TypeError])]
          ELSE [b EXCEPT !.layers = Append(@, l),
                         !.issued = Append(@, "BEGIN")]
     ELSE [b EXCEPT !.layers = Append(@, l)]

\* ----------------------------------------------------- index.js, 266..305
\* the synchronous part of the wrapped route: setup, BEGIN when this route
\* asks for a transaction that was not begun, handler chained on the promise
route(s, i, transaction) ==
  LET begun == s.reqAzul = "txn"
      a == setupRequest(s, transaction)
      b == setupResponse(a, i)
      l == [kind |-> "route", txn |-> transaction, st |-> "scheduled",
            beginFailed |-> FALSE]
  IN IF transaction /\ ~begun
     THEN IF b.reqAzul # "txn"   \* req.azul.transaction is undefined
          THEN [b EXCEPT !.layers = Append(@, [l EXCEPT !.st = "threw"]),
                         !.thrown = Append(@, [at |-> i, err |-> TypeError])]
          ELSE [b EXCEPT !.layers = Append(@, [l EXCEPT !.st = "begin"]),
                         !.issued = Append(@, "BEGIN")]
     ELSE [b EXCEPT !.layers = Append(@, l)]

\* index.js, 122 and 273: the reactions on the promise of BEGIN
beginSettled(s, i, ok) ==
  LET next(t, arg) ==
        [t EXCEPT !.nextCalls = Put(@, [next |-> i, arg |-> arg])]
      done == IF s.layers[i].kind = "route" THEN "scheduled" ELSE "done"
  IN IF ok
     THEN LET t == [s EXCEPT !.executed = Append(@, "BEGIN"),
                             !.layers[i].st = done]
          IN IF s.layers[i].kind = "route" THEN t ELSE next(t, None)
     ELSE next([s EXCEPT !.layers[i].st = done,
                         !.layers[i].beginFailed = TRUE], BeginError)

\* the close reactions with runPending registered for failure as well
closeSettled_DrainsAnyway(s, ok) ==
  LET t == [s EXCEPT !.promise.state = "fulfilled"] IN
  IF ok
  THEN runPending([t EXCEPT !.executed = Append(@, s.promise.op)])
  ELSE runPending([t EXCEPT !.nextCalls =
                     Put(@, [next |-> s.resNext, arg |-> CloseError])])

\* the close reactions without .catch(next): a failure is not reported
closeSettled_Silent(s, ok) ==
  LET t == [s EXCEPT !.promise.state = "fulfilled"] IN
  IF ok
  THEN runPending([t EXCEPT !.executed = Append(@, s.promise.op)])
  ELSE t

\* index.js, 54 and 60: the reactions on the promise of COMMIT / ROLLBACK
closeSettled(s, ok) ==
  LET t == [s EXCEPT !.promise.state = "fulfilled"] IN
  IF ok
  THEN runPending([t EXCEPT !.executed = Append(@, s.promise.op)])
  ELSE [t EXCEPT !.nextCalls =
                   Put(@, [next |-> s.resNext, arg |-> CloseError])]

\* the failure of the handler passed to a continuation that commits
handlerFailed_Commits(s, i, err) ==
  wrapNext_AlwaysCommits([s EXCEPT !.layers[i].st = "settled"], i, err)

\* index.js, 300..305: the handler threw or its promise was rejected
handlerFailed(s, i, err) ==
  wrapNext([s EXCEPT !.layers[i].st = "settled"], i, err)

\* index.js, 302: result.then(next), the promise resolved with value v
handlerResolved(s, i, v) ==
  LET t == wrapNext([s EXCEPT !.layers[i].st = "settled"], i,
                    IF v = "undefined" THEN None ELSE v)
  IN IF Len(t.thrown) > Len(s.thrown)
     THEN wrapNext(t, i, UsageError)       \* .catch(next), 305
     ELSE t

\* ----------------------------------------------------------------- Init
\* ae.route has not been called
NoRoute ==
  [status |-> "none", declared |-> <<>>, wrap |-> FALSE, params |-> <<>>,
   nExpress |-> 0, azul |-> <<>>, length |-> 0, requests |-> 0,
   handlerCalls |-> <<>>, wrapCalls |-> 0, wrapperCalls |-> <<>>]

\* a request and a response nothing has touched yet
FreshRequest ==
  /\ reqAzul = "absent" /\ resAzul = FALSE /\ resNext = 0
  /\ pending = [defined |-> FALSE, calls |-> <<>>]
  /\ promise = NoPromise /\ first = "none" /\ ret = 0
  /\ array = <<>> /\ issued = <<>> /\ executed = <<>>
  /\ emitLog = <<>> /\ emitted = <<>> /\ nextLog = EmptyBag /\ nextCalls = EmptyBag
  /\ thrown = <<>> /\ waiters = EmptyBag /\ layers = <<>>

\* modelBinder has not been called
NoBinder ==
  [simple |-> TRUE, relations |-> <<>>, bound |-> <<>>, derived |-> <<>>,
   stack |-> <<>>, results |-> <<>>, binds |-> 0]

Init == FreshRequest /\ made = NoRoute /\ binder = NoBinder


\* ------------------------------------------------------------- scheduling
Layer(i)  == i \in 1..Len(layers)
CallsMade == Len(emitLog) + BagCardinality(nextLog)
\* the handler of route i has been invoked
Invoked(i) == layers[i].kind = "route" /\ layers[i].st \in {"running", "settled"}
\* code holding res may act: the handler of a route once invoked, or whatever
\* runs downstream of the transaction middleware once it has handed over
MayAct(i) == /\ Layer(i)
             /\ \/ Invoked(i)
                \/ layers[i].kind = "transaction" /\ layers[i].st = "done"
\* Express passes the request on to the following layer when the previous
\* layer has called its continuation or has thrown
HandedOver ==
  IF layers = <<>> THEN TRUE
  ELSE \/ layers[Len(layers)].st = "threw"
       \/ \E c \in BagToSet(nextCalls) : c.next = Len(layers)
Runnable(w) == w.on = 0 \/ (promise.id = w.on /\ promise.state = "fulfilled")

\* ---------------------------------------------------------------- actions
\* Express invokes ae.transaction(req, res, next)
Transaction ==
  /\ Len(layers) < MaxLayers /\ HandedOver
  /\ Becomes(transactionMiddleware(Cur, Len(layers) + 1))

\* Express invokes a route made by ae.route(fn, {transaction: ...})
Route ==
  /\ Len(layers) < MaxLayers /\ HandedOver
  /\ \E transaction \in BOOLEAN :
        Becomes(route(Cur, Len(layers) + 1, transaction))

\* Express invokes ae.rollback(err, req, res, next)
RollbackMiddleware ==
  /\ Len(layers) < MaxLayers /\ HandedOver
  /\ Becomes(rollbackMiddleware(Cur, Len(layers) + 1, Err))

\* the engine settles BEGIN of layer i
BeginSettle ==
  \E i \in 1..Len(layers), ok \in BOOLEAN :
    /\ layers[i].st = "begin"
    /\ Becomes(beginSettled(Cur, i, ok))

\* the engine settles COMMIT / ROLLBACK
CloseSettle ==
  /\ promise.state = "pending"
  /\ \E ok \in BOOLEAN : Becomes(closeSettled(Cur, ok))

\* index.js, 300..301: the chained reaction invokes the handler
RunHandler ==
  \E i \in 1..Len(layers) :
    /\ layers[i].st = "scheduled"
    /\ Becomes([Cur EXCEPT !.layers[i].st = "running"])

\* the handler throws, or the promise it returned is rejected
HandlerFail ==
  \E i \in 1..Len(layers) :
    /\ layers[i].st = "running"
    /\ CallsMade < MaxCalls
    /\ Becomes(handlerFailed(Cur, i, Err))

\* the promise the handler returned is resolved
HandlerResolve ==
  \E i \in 1..Len(layers), v \in {"undefined", Val} :
    /\ layers[i].st = "running"
    /\ CallsMade < MaxCalls
    /\ Becomes(handlerResolved(Cur, i, v))

\* res.writeHead / res.write / res.end is called
Emit ==
  \E i \in 1..Len(layers), call \in Calls :
    /\ MayAct(i)
    /\ CallsMade < MaxCalls
    /\ Becomes(emission(Cur, call))

\* res.azul.commit() is called
Commit ==
  \E i \in 1..Len(layers) :
    /\ MayAct(i) /\ resAzul
    /\ Becomes(commit(Cur))

\* res.azul.rollback() is called
Rollback ==
  \E i \in 1..Len(layers) :
    /\ MayAct(i) /\ resAzul
    /\ Becomes(rollback(Cur))

\* the handler of route i calls the continuation it was given
CallNext ==
  \E i \in 1..Len(layers), arg \in {None, Err, Val} :
    /\ Invoked(i)
    /\ CallsMade < MaxCalls
    /\ Becomes(wrapNext(Cur, i, arg))

\* index.js, 108 and 136: the reaction calls the outer continuation
RunWaiter ==
  \E w \in BagToSet(waiters) :
    /\ Runnable(w)
    /\ Becomes([Cur EXCEPT
          !.nextCalls = Put(@, [next |-> w.next, arg |-> w.arg]),
          !.waiters   = @ (-) SetToBag({w})])

Next ==
  \/ Transaction \/ Route \/ RollbackMiddleware
  \/ BeginSettle \/ CloseSettle
  \/ RunHandler \/ HandlerFail \/ HandlerResolve
  \/ Emit \/ Commit \/ Rollback \/ CallNext
  \/ RunWaiter

Spec == Init /\ [][Next]_vars

TypeOK ==
  /\ reqAzul \in {"absent", "plain", "txn"}
  /\ resAzul \in BOOLEAN
  /\ promise.state \in {"undefined", "pending", "fulfilled"}
  /\ Len(layers) <= MaxLayers /\ CallsMade <= MaxCalls + 1

\* ------------------------------------------------- the query scenario
\* tests.js, 36..46 and 208..215: the handler runs a query through
\* req.azul.query and waits for it; the engine records it when it completes
query(s) ==
  [s EXCEPT !.issued = Append(@, "SELECT"), !.executed = Append(@, "SELECT")]

\* the handler of route i runs a query; it ends the response afterwards
Query ==
  \E i \in 1..Len(layers) :
    /\ layers[i].kind = "route" /\ layers[i].st = "running"
    /\ emitLog = <<>>
    /\ Count(issued, "SELECT") < MaxQueries
    /\ Becomes(query(Cur))

\* wrapped routes whose handlers run queries and then write the response
NextOrder ==
  \/ Route \/ BeginSettle \/ RunHandler
  \/ Query \/ Emit \/ CloseSettle

SpecOrder == Init /\ [][NextOrder]_vars

\* ------------------------------------------- index.js, 234..264: ae.route
\* parameter names as the characters fn.toString() shows
ReqParam     == <<"r", "e", "q">>
QueryParam   == <<"q", "u", "e", "r", "y">>
ArticleParam == <<"A", "r", "t">>
DollarParam  == <<"A", "$">>
ParamNames == {ReqParam, QueryParam, ArticleParam, DollarParam}
\* the parameter lists a handler may declare
ParamLists == UNION {[1..n -> ParamNames] : n \in 0..MaxParams}

UpperCase == {"A"}
WordChars == {"A", "r", "e", "q", "u", "y", "t", "_"}

\* 243: match[1].split(','), each piece trimmed; ''.split(',') is ['']
split(declared) == IF declared = <<>> THEN << <<>> >> ELSE declared

\* 244: arg.match(/^([A-Z]\w*|query)$/)
isAzulParam(arg) ==
  \/ arg = QueryParam
  \/ /\ Len(arg) >= 1 /\ arg[1] \in UpperCase
     /\ \A k \in 2..Len(arg) : arg[k] \in WordChars
\* 245
isExpressParam(arg) == ~isAzulParam(arg)

\* the elements of seq on which the predicate of 244 / 245 is true
azulIn(seq)    == {seq[k] : k \in {l \in 1..Len(seq) : isAzulParam(seq[l])}}
expressIn(seq) == {seq[k] : k \in {l \in 1..Len(seq) : isExpressParam(seq[l])}}

\* lodash takeWhile: the longest prefix of elements the predicate is true on,
\* the predicate given by the set of elements it is true on
takeWhile(seq, passing) ==
  LET bad == {k \in 1..Len(seq) : seq[k] \notin passing}
      n   == IF bad = {} THEN Len(seq)
             ELSE (CHOOSE k \in bad : \A l \in bad : k <= l) - 1
  IN SubSeq(seq, 1, n)
\* lodash drop
drop(seq, n) == SubSeq(seq, n + 1, Len(seq))

\* 147..164: the arity of the function makeExpress...Route returns
makeExpressStandardRoute == 3
makeExpressErrorRoute    == 4

\* ae.route that makes an error route for four or more leading parameters
makeRoute_AtLeastFour(m) ==
  LET params        == split(m.declared)
      expressParams == takeWhile(params, expressIn(params))
      azulParams    == takeWhile(drop(params, Len(expressParams)),
                                 azulIn(params))
      isErrorRoute  == Len(expressParams) >= 4
  IN IF Len(expressParams) + Len(azulParams) # Len(params)
     THEN [m EXCEPT !.status = "threw", !.params = params]
     ELSE [m EXCEPT !.status = "ok", !.params = params,
                    !.nExpress = Len(expressParams), !.azul = azulParams,
                    !.length = IF isErrorRoute THEN makeExpressErrorRoute
                               ELSE makeExpressStandardRoute]

\* 234..265: ae.route(fn, options); options.wrap is never read
makeRoute(m) ==
  LET params        == split(m.declared)
      expressParams == takeWhile(params, expressIn(params))
      azulParams    == takeWhile(drop(params, Len(expressParams)),
                                 azulIn(params))
      isErrorRoute  == Len(expressParams) = 4
  IN IF Len(expressParams) + Len(azulParams) # Len(params)
     THEN [m EXCEPT !.status = "threw", !.params = params]
     ELSE [m EXCEPT !.status = "ok", !.params = params,
                    !.nExpress = Len(expressParams), !.azul = azulParams,
                    !.length = IF isErrorRoute THEN makeExpressErrorRoute
                               ELSE makeExpressStandardRoute]

\* String.prototype.toLowerCase on the characters used
toLowerCase(name) ==
  [k \in 1..Len(name) |-> IF name[k] = "A" THEN "a" ELSE name[k]]

\* 281..301: the arguments the handler is applied to when Express calls the
\* route: the leading framework arguments with the continuation replaced by
\* the wrapped one, then the query interface and the bound models
combinedArgs(m) ==
  LET args == IF m.length = 4
              THEN << <<"err">>, <<"req">>, <<"res">>, <<"next">> >>
              ELSE << <<"req">>, <<"res">>, <<"next">> >>
      taken == SubSeq(args, 1, IF m.nExpress < Len(args) THEN m.nExpress
                               ELSE Len(args))
      expressArgs == IF Len(taken) >= 3
                     THEN [taken EXCEPT ![Len(taken)] = <<"wrapNext">>]
                     ELSE taken
      azulArgs == [k \in 1..Len(m.azul) |->
                    IF m.azul[k] = QueryParam THEN <<"req.azul.query">>
                    ELSE <<"model">> \o toLowerCase(m.azul[k])]
  IN expressArgs \o azulArgs

\* 266..305 without a transaction: one request reaches the handler
invoke(m) ==
  [m EXCEPT !.requests = @ + 1,
            !.handlerCalls = Append(@, combinedArgs(m))]

\* ae.route(fn, options) is called
MakeRoute ==
  /\ made.status = "none"
  /\ made' = makeRoute(made)
  /\ UNCHANGED <<pipeline, binder>>

\* Express calls the function ae.route returned
InvokeRoute ==
  /\ made.status = "ok" /\ made.requests < MaxRequests
  /\ made' = invoke(made)
  /\ UNCHANGED <<pipeline, binder>>

InitRoute ==
  /\ FreshRequest /\ binder = NoBinder
  /\ \E declared \in ParamLists, wrap \in BOOLEAN :
        made = [NoRoute EXCEPT !.declared = declared, !.wrap = wrap]

NextRoute == MakeRoute \/ InvokeRoute

SpecRoute == InitRoute /\ [][NextRoute]_vars

\* --------------------------------------- index.js, 188..224: modelBinder
\* the models of the database, by name, and the ways a name is spelled
ModelName(k) == [j \in 1..k |-> "a"]
Models       == {ModelName(k) : k \in 1..MaxModels}
\* __name__ of the class db.model(name) makes
ClassName(name) == [name EXCEPT ![1] = "A"]
Spellings    == Models \cup {ClassName(n) : n \in Models}
\* the relation graphs: for each model, the models its relations lead to
Graphs       == [Models -> SUBSET Models]

\* a set of names as the sequence _.keysIn enumerates
RECURSIVE keysIn(_)
keysIn(S) ==
  IF S = {} THEN <<>>
  ELSE LET n == CHOOSE x \in S : \A y \in S : Len(x) <= Len(y)
       IN <<n>> \o keysIn(S \ {n})

\* 203..212: for every relation of the model, the names passed to bind
RECURSIVE relationNames(_, _)
relationNames(name, related) ==
  IF related = <<>> THEN <<>>
  ELSE <<ClassName(name), ClassName(related[1])>>
       \o relationNames(name, SubSeq(related, 2, Len(related)))

\* db.model(name) and db.model(name).extend(): a class, and its n-th subclass
model(name)      == [model |-> name, subclass |-> 0]
extend(name, n)  == [model |-> name, subclass |-> n]
Unbound          == [model |-> <<>>, subclass |-> 0]

\* what bind returns to its caller: bound[name]; the result of a call made
\* by the handler is recorded
return(b, name, top) ==
  IF top THEN [b EXCEPT !.results =
                 Append(@, [name |-> name, type |-> b.bound[name]])]
  ELSE b

\* bind that subclasses the model without storing the subclass in the cache
bind_NotStored(b, spelled, top) ==
  LET name == toLowerCase(spelled) IN
  IF b.bound[name] # Unbound THEN return(b, name, top)
  ELSE IF b.simple
  THEN return([b EXCEPT !.bound[name] = model(name)], name, top)
  ELSE [b EXCEPT
          !.derived[name] = @ + 1,
          !.stack = Append(@,
             [name |-> name, top |-> top,
              todo |-> relationNames(name, keysIn(b.relations[name]))])]

\* 192..198: bind entered: the name lower-cased, the cache consulted, the
\* model taken as it is (simple) or subclassed and stored before the
\* relations are visited
bind(b, spelled, top) ==
  LET name == toLowerCase(spelled) IN
  IF b.bound[name] # Unbound THEN return(b, name, top)
  ELSE IF b.simple
  THEN return([b EXCEPT !.bound[name] = model(name)], name, top)
  ELSE [b EXCEPT
          !.bound[name] = extend(name, b.derived[name] + 1),
          !.derived[name] = @ + 1,
          !.stack = Append(@,
             [name |-> name, top |-> top,
              todo |-> relationNames(name, keysIn(b.relations[name]))])]

\* 206..216: the forEach over the relations calls bind for the next name
visit(b) ==
  LET d == Len(b.stack)
      f == b.stack[d]
  IN bind([b EXCEPT !.stack[d].todo = SubSeq(f.todo, 2, Len(f.todo))],
          f.todo[1], FALSE)

\* 219..221: the query is set on the subclass and bind returns bound[name]
finish(b) ==
  LET d == Len(b.stack)
      f == b.stack[d]
  IN return([b EXCEPT !.stack = SubSeq(b.stack, 1, d - 1)], f.name, f.top)

\* calls of bind nested deeper than this are not followed
MaxDepth == MaxModels + 2

\* the handler's parameter is bound: binder(arg), index.js 291
Bind ==
  /\ binder.stack = <<>> /\ binder.binds < MaxBinds
  /\ \E spelled \in Spellings :
        binder' = bind([binder EXCEPT !.binds = @ + 1], spelled, TRUE)
  /\ UNCHANGED <<pipeline, made>>

\* bind visits the next relation of the model it is subclassing
Visit ==
  /\ binder.stack # <<>> /\ Len(binder.stack) < MaxDepth
  /\ binder.stack[Len(binder.stack)].todo # <<>>
  /\ binder' = visit(binder)
  /\ UNCHANGED <<pipeline, made>>

\* bind has visited every relation and returns
Finish ==
  /\ binder.stack # <<>>
  /\ binder.stack[Len(binder.stack)].todo = <<>>
  /\ binder' = finish(binder)
  /\ UNCHANGED <<pipeline, made>>

\* modelBinder(db, req): an empty cache, for any relation graph
InitBind ==
  /\ FreshRequest /\ made = NoRoute
  /\ \E simple \in BOOLEAN, relations \in Graphs :
        binder = [NoBinder EXCEPT
                    !.simple = simple, !.relations = relations,
                    !.bound = [n \in Models |-> Unbound],
                    !.derived = [n \in Models |-> 0]]

NextBind == Bind \/ Visit \/ Finish

SpecBind == InitBind /\ [][NextBind]_vars
\* a call of bind in progress keeps running
FairBind == SpecBind /\ WF_vars(Visit) /\ WF_vars(Finish)

\* ================================================================= claims
Last(seq) == seq[Len(seq)]
Has(seq, x) == \E k \in 1..Len(seq) : seq[k] = x
\* the close has completed successfully
Closed == promise.state = "fulfilled" /\ Closes(executed) >= 1
\* nothing is in flight: the close is not pending and no reaction waits
Quiescent == promise.state # "pending" /\ waiters = EmptyBag
\* this step is a call of writeHead / write / end
EmissionStep == Len(emitLog') = Len(emitLog) + 1
\* this step is one call of the wrapped continuation of route i with arg
NextStep(i, arg) == nextLog' = Put(nextLog, [next |-> i, arg |-> arg])
TxnRoute(i) == Layer(i) /\ layers[i].kind = "route" /\ layers[i].txn

\* C1: whatever triggers fire on a response (commit(), rollback(), emissions,
\* the wrapped continuation, the rollback middleware), at most one COMMIT or
\* ROLLBACK is handed to the engine.
C1_AtMostOneClose == Closes(issued) <= 1

\* an emission, an error through the continuation and the rollback
\* middleware have all fired, and one close was issued
C1_Witness ==
  /\ Closes(issued) = 1
  /\ emitLog # <<>>
  /\ \E c \in BagToSet(nextLog) : c.arg = Err
  /\ \E i \in 1..Len(layers) : layers[i].kind = "rollback"

\* C2: the first of commit() / rollback() to be called decides the statement
\* that is executed; every later call of either returns the promise of the
\* first call and hands nothing to the engine.
C2_FirstCallWins ==
  /\ [](first # "none" =>
          /\ ret = 1 /\ promise.id = 1
          /\ Closes(issued) = 1
          /\ Has(issued, IF first = "commit" THEN "COMMIT" ELSE "ROLLBACK"))
  /\ [][first # "none" => first' = first /\ promise'.op = promise.op]_vars

\* rollback() came first and failed; emissions made since then called commit()
C2_Witness ==
  /\ first = "rollback"
  /\ promise.state = "fulfilled"
  /\ Len(pending.calls) = 2
  /\ Closes(issued) = 1 /\ Has(issued, "ROLLBACK")

\* C3: with a transaction on the request, no original writeHead / write / end
\* has been invoked unless the close has completed successfully, and an
\* emission made before that is queued without invoking the original.
C3_NoEmissionBeforeClose ==
  /\ [](reqAzul = "txn" /\ emitted # <<>> => Closed)
  /\ [][reqAzul = "txn" /\ EmissionStep /\ ~Closed =>
          /\ emitted' = emitted
          /\ pending'.calls = Append(pending.calls, Last(emitLog'))]_vars

\* two emissions are queued while the close is in flight
C3_Witness ==
  /\ reqAzul = "txn" /\ promise.state = "pending"
  /\ Len(pending.calls) = 2 /\ emitted = <<>>

\* C4: the emissions made before the close are replayed after a successful
\* close in the order they were made, each once, with receiver and arguments.
C4_ReplayInOrder ==
  resAzul /\ ~pending.defined =>
    /\ array = SubSeq(emitLog, 1, Len(array))
    /\ emitted = emitLog

\* two different emissions were queued and have been replayed
C4_Witness ==
  /\ resAzul /\ ~pending.defined
  /\ Len(array) = 2 /\ array[1] # array[2]
  /\ emitted = array

\* C5: once the queue is drained, an emission invokes the original at once
\* with its arguments, is not queued, and hands nothing to the engine.
C5_DirectAfterDrain ==
  [][resAzul /\ ~pending.defined /\ EmissionStep =>
       /\ emitted' = Append(emitted, Last(emitLog'))
       /\ pending' = pending
       /\ issued' = issued /\ promise' = promise]_vars

\* an emission made after the drain has reached the original operation
C5_Witness ==
  /\ resAzul /\ ~pending.defined
  /\ Len(array) = 1 /\ Len(emitted) = 2 /\ emitted = emitLog

\* C6: after the transaction middleware began a transaction, the first
\* emission with no close started starts a COMMIT and invokes no original;
\* when that COMMIT succeeds the engine has run BEGIN, COMMIT and the
\* queued originals are invoked.
C6_FirstEmissionCommits ==
  /\ [][resAzul /\ promise.id = 0 /\ EmissionStep =>
          /\ promise'.state = "pending"
          /\ issued' = Append(issued, "COMMIT")
          /\ emitted' = emitted]_vars
  /\ [][promise.state = "pending" /\ executed' = Append(executed, "COMMIT") =>
          emitted' = emitted \o pending.calls]_vars
  /\ [](/\ Len(layers) >= 1 /\ layers[1].kind = "transaction"
         /\ BagIn([next |-> 1, arg |-> None], nextCalls)
         /\ Count(issued, "BEGIN") = 1
         /\ Has(executed, "COMMIT")
         => executed = <<"BEGIN", "COMMIT">> /\ emitted = emitLog)

\* transaction middleware, then one emission: BEGIN, COMMIT, the original
C6_Witness ==
  /\ Len(layers) = 1 /\ layers[1].kind = "transaction"
  /\ nextLog = EmptyBag
  /\ executed = <<"BEGIN", "COMMIT">>
  /\ Len(emitted) = 1 /\ emitted = emitLog

C8_NextWithErrorRollsBack ==
  /\ [][\A i \in 1..Len(layers) : TxnRoute(i) /\ NextStep(i, Err) =>
          /\ Closes(issued') = 1
          /\ (promise.id = 0 =>
                /\ Count(issued', "ROLLBACK") = 1
                /\ Count(issued', "COMMIT") = 0)]_vars
  /\ [][Count(issued, "ROLLBACK") = 1 /\ Count(issued, "COMMIT") = 0 =>
          Count(issued', "ROLLBACK") = 1 /\ Count(issued', "COMMIT") = 0]_vars
  /\ [](Quiescent =>
          \A c \in BagToSet(nextLog) :
            TxnRoute(c.next) /\ c.arg = Err =>
              CopiesIn([next |-> c.next, arg |-> Err], nextCalls)
                >= CopiesIn(c, nextLog))

\* route with transaction: true, BEGIN, the handler calls next(err):
\* ROLLBACK, then the outer continuation gets err
C8_Witness ==
  /\ Len(layers) = 1 /\ TxnRoute(1)
  /\ nextLog = SetToBag({[next |-> 1, arg |-> Err]})
  /\ executed = <<"BEGIN", "ROLLBACK">>
  /\ nextCalls = SetToBag({[next |-> 1, arg |-> Err]})

C10_BeginFailureNoClose ==
  \A i \in 1..Len(layers) :
    layers[i].kind = "route" /\ layers[i].beginFailed =>
      /\ BagIn([next |-> i, arg |-> BeginError], nextCalls)
      /\ Closes(issued) = 0

\* C11: when BEGIN of a route wrapped with transaction: true fails, the
\* handler of that route is not invoked.
C11_BeginFailureNoHandler ==
  \A i \in 1..Len(layers) :
    layers[i].kind = "route" /\ layers[i].beginFailed => ~Invoked(i)

\* the engine rejected the COMMIT / ROLLBACK
CloseFailed == promise.state = "fulfilled" /\ Closes(executed) = 0
\* the number of elements of the bag that are in the set S
RECURSIVE Total(_, _)
Total(bag, S) ==
  IF S = {} THEN 0
  ELSE LET c == CHOOSE x \in S : TRUE
       IN CopiesIn(c, bag) + Total(bag, S \ {c})
\* how often an outer continuation was called with arg
Delivered(arg) == Total(nextCalls, {c \in BagToSet(nextCalls) : c.arg = arg})
\* how often the outer continuation of layer i was called
OuterCalls(i) == Total(nextCalls, {c \in BagToSet(nextCalls) : c.next = i})
\* how often the wrapped continuation of route i was called
WrappedCalls(i) == Total(nextLog, {c \in BagToSet(nextLog) : c.next = i})

\* C12: when the engine rejects COMMIT or ROLLBACK, the failure has been
\* given to the continuation of the response exactly once (and never before
\* the rejection), and nothing more is handed to the engine afterwards,
\* whatever is called later.
C12_CloseFailureOnceNoRetry ==
  /\ [](CloseFailed =>
          /\ Delivered(CloseError) = 1
          /\ BagIn([next |-> resNext, arg |-> CloseError], nextCalls)
          /\ Closes(issued) = 1)
  /\ [](~CloseFailed => Delivered(CloseError) = 0)
  /\ [][CloseFailed => CloseFailed' /\ Closes(issued') = Closes(issued)]_vars

\* an emission started a COMMIT that failed; the error went to the
\* continuation, then the rollback middleware called rollback(): no ROLLBACK
C12_Witness ==
  /\ Len(layers) = 2 /\ TxnRoute(1) /\ layers[2].kind = "rollback"
  /\ issued = <<"BEGIN", "COMMIT">> /\ CloseFailed
  /\ nextLog = EmptyBag /\ Len(emitLog) = 1
  /\ nextCalls = SetToBag({[next |-> 1, arg |-> CloseError],
                           [next |-> 2, arg |-> Err]})

\* C13: for a wrapped route whose BEGIN did not fail and whose handler
\* called its continuation once, with nothing or with an error, the outer
\* continuation has been called exactly once when everything has settled.
C13_OuterCalledOnce ==
  Quiescent =>
    \A i \in 1..Len(layers) :
      /\ layers[i].kind = "route" /\ ~layers[i].beginFailed
      /\ WrappedCalls(i) = 1
      /\ \E arg \in {None, Err} : BagIn([next |-> i, arg |-> arg], nextLog)
      => OuterCalls(i) = 1

\* this step is the handler of route i throwing or its promise rejecting
HandlerFailStep(i) ==
  /\ Layer(i) /\ layers[i].st = "running" /\ layers'[i].st = "settled"
  /\ NextStep(i, Err)

\* C14: when the handler of a route wrapped with transaction: true throws or
\* returns a promise that is rejected, one close has been handed to the
\* engine; with no close started before it is a ROLLBACK and no COMMIT; the
\* outer continuation is called with the same error, and only after the
\* close has settled.
C14_HandlerFailureRollsBack ==
  /\ [][\A i \in 1..Len(layers) : TxnRoute(i) /\ HandlerFailStep(i) =>
          /\ Closes(issued') = 1
          /\ (promise.id = 0 => issued' = Append(issued, "ROLLBACK"))
          /\ nextCalls' = nextCalls
          /\ waiters' = Put(waiters, [next |-> i, arg |-> Err, on |-> 1])]_vars
  /\ [][\A i \in 1..Len(layers) :
          TxnRoute(i) /\ nextCalls' = Put(nextCalls, [next |-> i, arg |-> Err])
          => promise.state = "fulfilled" /\ Closes(issued) = 1]_vars
  /\ [](Quiescent =>
          \A i \in 1..Len(layers) :
            /\ TxnRoute(i) /\ layers[i].st = "settled"
            /\ BagIn([next |-> i, arg |-> Err], nextLog)
            => BagIn([next |-> i, arg |-> Err], nextCalls))

\* the handler threw before anything else happened: BEGIN, ROLLBACK, then
\* the outer continuation got the error
C14_Witness ==
  /\ Len(layers) = 1 /\ TxnRoute(1) /\ layers[1].st = "settled"
  /\ emitLog = <<>> /\ first = "rollback"
  /\ nextLog = SetToBag({[next |-> 1, arg |-> Err]})
  /\ executed = <<"BEGIN", "ROLLBACK">>
  /\ nextCalls = SetToBag({[next |-> 1, arg |-> Err]})

\* this step is Express invoking the rollback middleware as layer i
RollbackStep(i) ==
  /\ i = Len(layers) + 1 /\ Len(layers') = i /\ layers'[i].kind = "rollback"

\* C15: the rollback middleware called with an error: without a transaction
\* on the response it hands nothing to the engine and passes the error on;
\* with a transaction and no close started it hands one ROLLBACK to the
\* engine and passes the error on after the ROLLBACK has settled; after a
\* close was started it hands nothing more to the engine.  Its continuation
\* is called once, with the error it received.
C15_RollbackMiddlewareSafe ==
  /\ [][\A i \in 1..MaxLayers : RollbackStep(i) =>
          /\ thrown' = thrown /\ nextCalls' = nextCalls
          /\ (~resAzul =>
                /\ issued' = issued /\ promise' = promise
                /\ waiters' = Put(waiters, [next |-> i, arg |-> Err, on |-> 0]))
          /\ (resAzul /\ promise.id = 0 =>
                /\ issued' = Append(issued, "ROLLBACK")
                /\ waiters' = Put(waiters, [next |-> i, arg |-> Err, on |-> 1]))
          /\ (resAzul /\ promise.id # 0 =>
                /\ issued' = issued /\ promise' = promise
                /\ waiters' = Put(waiters, [next |-> i, arg |-> Err, on |-> 1]))
       ]_vars
  /\ [][\A i \in 1..Len(layers) :
          /\ layers[i].kind = "rollback" /\ resAzul
          /\ OuterCalls(i)' = OuterCalls(i) + 1
          => promise.state = "fulfilled"]_vars
  /\ [](\A i \in 1..Len(layers) : layers[i].kind = "rollback" =>
          /\ \A c \in BagToSet(nextCalls) : c.next = i => c.arg = Err
          /\ OuterCalls(i) <= 1
          /\ (Quiescent => OuterCalls(i) = 1))

\* transaction middleware, then the rollback middleware with the transaction
\* open: BEGIN, ROLLBACK, the error passed on
C15_Witness ==
  /\ Len(layers) = 2
  /\ layers[1].kind = "transaction" /\ layers[2].kind = "rollback"
  /\ emitLog = <<>> /\ first = "rollback"
  /\ executed = <<"BEGIN", "ROLLBACK">>
  /\ BagIn([next |-> 2, arg |-> Err], nextCalls)

\* layer i is the transaction middleware and it found a transaction to begin
TxnMiddleware(i) ==
  Layer(i) /\ layers[i].kind = "transaction" /\ layers[i].st # "threw"
\* calls of the continuation of layer i made by the reactions on BEGIN
BeginCalls(i) == CopiesIn([next |-> i, arg |-> None], nextCalls)
                 + CopiesIn([next |-> i, arg |-> BeginError], nextCalls)

PlainHandlerRunning ==
  /\ \E i \in 1..Len(layers) :
        layers[i].kind = "route" /\ ~layers[i].txn /\ layers[i].st = "running"
  /\ \A j \in 1..Len(layers) : Invoked(j) => ~layers[j].txn
\* this emission invokes the original at once: nothing queued, no engine call
Immediate ==
  /\ emitted' = Append(emitted, Last(emitLog'))
  /\ pending' = pending
  /\ issued' = issued /\ promise' = promise

\* C17 as stated: an emission made while the handler of a route wrapped
\* without the transaction option runs invokes the original at once.
C17_PlainEmissionImmediate ==
  [][PlainHandlerRunning /\ EmissionStep => Immediate]_vars

\* C17: on a request without a transaction, an emission made while the
\* handler of a route wrapped without the transaction option runs invokes
\* the original at once, queues nothing and hands nothing to the engine.
C17_PlainEmissionImmediateNoTxn ==
  [][reqAzul # "txn" /\ PlainHandlerRunning /\ EmissionStep => Immediate]_vars

\* a route without the option on a fresh request emitted twice
C17_Witness ==
  /\ Len(layers) = 1 /\ layers[1].kind = "route" /\ ~layers[1].txn
  /\ layers[1].st = "running" /\ reqAzul = "plain" /\ ~resAzul
  /\ Len(emitLog) = 2 /\ emitted = emitLog /\ issued = <<>>

\* C18: when the engine accepts every BEGIN, a route wrapped with
\* transaction: true invokes its handler whatever ran before it on the
\* request, and when the handler is invoked the request holds a transaction
\* for which BEGIN has been executed.
C18_TxnRouteAlwaysInTransaction ==
  (\A j \in 1..Len(layers) : ~layers[j].beginFailed) =>
    \A i \in 1..Len(layers) : TxnRoute(i) =>
      /\ layers[i].st # "threw"
      /\ (Invoked(i) => reqAzul = "txn" /\ Has(executed, "BEGIN"))

\* C19: the step in which the promise returned by the handler of route i
\* settles is one call of the wrapped continuation: without argument when
\* the promise was resolved, whatever the value, with the error when it was
\* rejected.
C19_SettlementCallsContinuation ==
  [][\A i \in 1..Len(layers) :
       layers[i].st = "running" /\ layers'[i].st = "settled"
       => NextStep(i, None) \/ NextStep(i, Err)]_vars

\* every BEGIN handed to the engine has been completed or rejected
BeginsSettled ==
  Count(issued, "BEGIN") =
    Count(executed, "BEGIN")
    + Cardinality({j \in 1..Len(layers) : layers[j].beginFailed})

C21_WrapReplacesHandler ==
  made.status = "ok" /\ made.wrap =>
    /\ made.wrapCalls = 1
    /\ made.wrapperCalls = made.handlerCalls
    /\ Len(made.wrapperCalls) = made.requests

\* the leading framework-standard parameters of the declared list
Leading(declared) ==
  IF declared = <<>> THEN 0 ELSE Len(takeWhile(declared, expressIn(declared)))

\* C22: the function ae.route returns declares 3 or 4 parameters: 4 exactly
\* when the handler has exactly 4 leading framework parameters, 3 for every
\* other accepted list, whatever capability parameters follow.
C22_ArityThreeOrFour ==
  made.status = "ok" =>
    /\ made.length \in {3, 4}
    /\ made.length = 4 <=> Leading(made.declared) = 4

\* five leading framework parameters and a capability parameter: arity 3
C22_Witness ==
  /\ made.status = "ok" /\ made.length = 3
  /\ Leading(made.declared) = 5 /\ Len(made.declared) = 6
  /\ made.declared[6] = ArticleParam

\* C23: within one binder every model name is subclassed at most once, the
\* calls of bind in progress are for different models (so rebinding the
\* relations of a cyclic graph ends), every call made by the handler
\* returns, and two calls for the same name, in any letter case, return the
\* identical type.
C23_BindTerminatesAndMemoizes ==
  /\ [](\A n \in Models : binder.derived[n] <= 1)
  /\ [](/\ Len(binder.stack) <= Cardinality(Models)
        /\ \A i, j \in 1..Len(binder.stack) :
              binder.stack[i].name = binder.stack[j].name => i = j)
  /\ [](\A i, j \in 1..Len(binder.results) :
          binder.results[i].name = binder.results[j].name =>
            /\ binder.results[i].type = binder.results[j].type
            /\ binder.results[i].type # Unbound)
  /\ []<>(binder.stack = <<>> /\ Len(binder.results) = binder.binds)

\* two models related to each other and to themselves, bound in a
\* transaction: the first model asked for twice, the second reached through
\* the relations only
C23_Witness ==
  /\ ~binder.simple /\ binder.stack = <<>>
  /\ \A n \in Models : binder.relations[n] = Models
  /\ Len(binder.results) = 2
  /\ binder.results[1] = binder.results[2]
  /\ \A n \in Models : binder.derived[n] = 1

\* layer i put a transaction on the request
OpensTransaction(i) ==
  /\ layers[i].kind \in {"transaction", "route"}
  /\ layers[i].txn /\ layers[i].st # "threw"
\* layer i was invoked on a request that already held a transaction
HadTransaction(i) == \E j \in 1..(i - 1) : OpensTransaction(j)

\* C24: a wrapped route invoked on a request that already holds a
\* transaction hands no BEGIN to the engine, whatever its option: every
\* BEGIN comes from a transaction middleware or from a route that found no
\* transaction; a pipeline of one opener followed by wrapped routes has
\* exactly one BEGIN, and an emission made there has started the one close.
C24_NoSecondBegin ==
  /\ Count(issued, "BEGIN") =
       Cardinality({i \in 1..Len(layers) :
                      layers[i].kind = "transaction" /\ OpensTransaction(i)})
       + Cardinality({i \in 1..Len(layers) :
                      TxnRoute(i) /\ OpensTransaction(i) /\ ~HadTransaction(i)})
  /\ (/\ Len(layers) >= 1 /\ OpensTransaction(1)
      /\ \A i \in 2..Len(layers) : layers[i].kind = "route"
      => /\ Count(issued, "BEGIN") = 1 /\ reqAzul = "txn" /\ resNext = 1
         /\ (emitLog # <<>> => Closes(issued) = 1))

\* the transaction middleware, then a route wrapped with transaction: true
\* whose handler wrote the response: BEGIN once, COMMIT
C24_Witness ==
  /\ Len(layers) = 2 /\ layers[1].kind = "transaction"
  /\ TxnRoute(2) /\ Invoked(2) /\ nextLog = EmptyBag
  /\ Len(emitLog) = 1
  /\ issued = <<"BEGIN", "COMMIT">>

\* the layers that called setupResponse with a transaction on the request
Openers == {i \in 1..Len(layers) : OpensTransaction(i)}

\* C25: whatever transaction middleware and wrapped routes ran on the
\* request, the response has the coordinator of the first set-up: its
\* continuation, one close promise, one queue holding every emission call
\* made so far until it is drained; no emission call has invoked the
\* original more than once.
C25_OneCoordinator ==
  /\ \A c \in Calls : Count(emitted, c) <= Count(emitLog, c)
  /\ (~resAzul => emitted = emitLog /\ Openers = {})
  /\ (resAzul =>
        /\ Openers # {} /\ \A i \in Openers : resNext <= i
        /\ resNext \in Openers
        /\ promise.id <= 1 /\ Closes(issued) <= 1
        /\ (pending.defined => pending.calls = emitLog /\ emitted = <<>>)
        /\ (~pending.defined => emitted = emitLog))

\* the transaction middleware and a route wrapped with transaction: true
\* both set the response up; two emissions were queued and replayed once
C25_Witness ==
  /\ Len(layers) = 2 /\ Openers = {1, 2} /\ resNext = 1
  /\ layers[1].kind = "transaction"
  /\ Len(emitLog) = 2 /\ emitted = emitLog /\ Len(array) = 2
  /\ executed = <<"BEGIN", "COMMIT">>

\* the calls of outer continuations forwarded by wrapped continuations that
\* were called with the coordinator on the response
Forwarded ==
  {c \in BagToSet(nextCalls) :
     /\ layers[c.next].kind = "route" /\ c.next >= resNext
     /\ c.arg \in {None, Err, UsageError}}

\* C26: when a wrapped continuation was called with the coordinator on the
\* response, the outer continuation has been called only with the close
\* settled, never with none started or one in flight, and after a
\* successful close only with the queue drained and its calls replayed.
C26_ForwardAfterClose ==
  resAzul /\ Forwarded # {} =>
    /\ promise.state = "fulfilled"
    /\ (Closes(executed) = 1 =>
          /\ ~pending.defined
          /\ SubSeq(emitted, 1, Len(array)) = array)

\* an emission was queued, the handler called next(): COMMIT completed, the
\* emission was replayed and the outer continuation called
C26_Witness ==
  /\ Len(layers) = 1 /\ TxnRoute(1)
  /\ Len(emitLog) = 1 /\ emitted = emitLog
  /\ nextLog = SetToBag({[next |-> 1, arg |-> None]})
  /\ nextCalls = SetToBag({[next |-> 1, arg |-> None]})
  /\ executed = <<"BEGIN", "COMMIT">>

\* C28: once COMMIT / ROLLBACK has failed the queue is still there and holds
\* every emission made since the response was set up, those made before the
\* failure and those made after it; no original has been invoked for them
\* and the engine has completed no close.
C28_FailedCloseDefersForever ==
  CloseFailed =>
    /\ resAzul /\ pending.defined
    /\ Len(emitted) + Len(pending.calls) = Len(emitLog)
    /\ emitLog = emitted \o pending.calls
    /\ array = <<>>
    /\ Closes(executed) = 0

\* the first emission started a COMMIT that failed and the error went to the
\* continuation; both emissions made for the response are still queued
C28_Witness ==
  /\ Len(layers) = 1 /\ TxnRoute(1) /\ layers[1].st = "running"
  /\ issued = <<"BEGIN", "COMMIT">> /\ CloseFailed
  /\ Len(emitLog) = 2 /\ pending.calls = emitLog /\ emitted = <<>>
  /\ nextCalls = SetToBag({[next |-> 1, arg |-> CloseError]})

\* ------------------------------- index.js, 44..50: calls during the replay
\* An original invoked by the replay may itself call writeHead / write / end
\* on res, where it finds the wrappers (76..78).
MaxEmits == 4
\* the replayed original calls nothing on res
Silent == [op |-> "none", this |-> "res", args |-> "a"]
\* what each replayed original calls on res, within the bound on emissions
Nestings(s) ==
  {nest \in [1..Len(s.pending.calls) -> Calls \cup {Silent}] :
     Len(s.emitLog) + Cardinality({k \in DOMAIN nest : nest[k] # Silent})
       <= MaxEmits}

\* index.js, 47..49: array.forEach invokes the original of every queued call;
\* the k-th original calls nest[k] on res before it returns
RECURSIVE forEach(_, _, _, _)
forEach(s, queue, nest, k) ==
  IF k > Len(queue) THEN s
  ELSE LET t == [s EXCEPT !.emitted = Append(@, queue[k])]
           u == IF nest[k] = Silent THEN t ELSE emission(t, nest[k])
       IN forEach(u, queue, nest, k + 1)

\* runPending discarding the queue after the replay instead of before it
drain_ClearsLate(s, nest) ==
  LET t == forEach([s EXCEPT !.array = s.pending.calls],
                   s.pending.calls, nest, 1)
  IN [t EXCEPT !.pending = [defined |-> FALSE, calls |-> <<>>]]

\* index.js, 44..50: runPending with originals that call back into res
drain(s, nest) ==
  forEach([s EXCEPT !.array   = s.pending.calls,
                    !.pending = [defined |-> FALSE, calls |-> <<>>]],
          s.pending.calls, nest, 1)

\* index.js, 54 and 60: the reactions on the promise of COMMIT / ROLLBACK
settle(s, ok, nest) ==
  IF ok
  THEN drain([s EXCEPT !.promise.state = "fulfilled",
                       !.executed = Append(@, s.promise.op)], nest)
  ELSE closeSettled(s, FALSE)

\* res.writeHead / res.write / res.end is called
Write ==
  \E i \in 1..Len(layers), call \in Calls :
    /\ MayAct(i)
    /\ Len(emitLog) < MaxEmits
    /\ Becomes(emission(Cur, call))

\* the engine settles COMMIT / ROLLBACK; on success the queue is replayed
Drain ==
  /\ promise.state = "pending"
  /\ \E ok \in BOOLEAN, nest \in Nestings(Cur) : Becomes(settle(Cur, ok, nest))

\* routes whose handlers write the response, closed by the first emission
NextDrain ==
  \/ Route \/ BeginSettle \/ RunHandler
  \/ Write \/ Drain

SpecDrain == Init /\ [][NextDrain]_vars

\* C27: after a successful close every call of writeHead / write / end made
\* so far, queued before the close, queued while it was in flight, made by a
\* replayed original during the replay or made after it, has had its
\* original invoked exactly once, and nothing is left queued.
C27_EveryEmissionOnce ==
  Closed =>
    /\ ~pending.defined
    /\ Len(emitted) = Len(emitLog)
    /\ \A c \in Calls : Count(emitted, c) = Count(emitLog, c)

\* two emissions were queued, the first of them before the close; the
\* original of the first one called res during the replay, so the originals
\* ran in another order than the calls were made; four calls, four originals
C27_Witness ==
  /\ Len(layers) = 1 /\ TxnRoute(1)
  /\ executed = <<"BEGIN", "COMMIT">> /\ Closed
  /\ Len(array) = 2 /\ Len(emitLog) = 4
  /\ emitted # emitLog /\ emitted[1] = array[1] /\ emitted[3] = array[2]

====
